---- MODULE Spec2Model ----
(***************************************************************************)
(* State-machine model of the CMS record store (lib/database.ts), its      *)
(* authentication helpers (lib/auth.ts) and the three API routes           *)
(* (api/employees, api/customers, api/auth).  A request is a process in a  *)
(* slot: Start runs the handler's synchronous prefix (authenticateRequest, *)
(* role checks, body validation) and every later action is one SQL         *)
(* statement together with the JavaScript that follows it up to the next   *)
(* statement or the response.  SQLite executes one statement at a time, so *)
(* statements of different requests interleave but never overlap.          *)
(***************************************************************************)
EXTENDS Integers, Sequences, FiniteSets, TLC

-----------------------------------------------------------------------------
(* Bounds of the model *)

MaxSlots == 2       \* requests in flight at once
MaxEmpId == 3       \* largest employees.id the model lets AUTOINCREMENT reach
MaxCustId == 2      \* largest customers.id the model lets AUTOINCREMENT reach
MaxSessions == 2    \* tokens issued by login
MaxCodeRequests == 4    \* requests sent in SpecCode
MaxAccessRequests == 7  \* requests sent in Spec
MaxDeniedRequests == 5  \* requests sent in SpecDenied
MaxSessionRequests == 5 \* requests sent in SpecSession
MaxNow == 48            \* the latest hour the clock of the model reaches
MaxInputRequests == 5   \* requests sent in SpecInput
MaxRaceRequests == 4    \* requests sent in SpecRace
MaxBoots == 3           \* times the server process starts
MaxOwnerRequests == 7   \* requests sent in SpecOwner

Slots == 1..MaxSlots

-----------------------------------------------------------------------------
(* JavaScript values *)

\* A property absent from a JSON body, a missing query parameter
Undefined == "undefined"

\* !v for the string-valued inputs of the handlers: undefined and '' are falsy
Falsy(v) == v = Undefined \/ v = ""

\* SQL NULL in the integer column customers.createdBy; AUTOINCREMENT ids
\* start at 1, so no id equals it.  `createdBy || null` maps 0 to it as well.
NULL == 0

\* NaN, as parseInt returns it for a string that does not start with a digit;
\* `WHERE id = NaN` matches no row.
NaN == -1

\* parseInt(id) for the id strings the requests carry
ParseInt(s) ==
    IF \E n \in 0..(MaxEmpId + MaxCustId + 1) : ToString(n) = s
    THEN CHOOSE n \in 0..(MaxEmpId + MaxCustId + 1) : ToString(n) = s
    ELSE NaN

\* String.prototype.padStart(n, c)
RECURSIVE padStart(_, _, _)
padStart(s, n, c) == IF Len(s) >= n THEN s ELSE padStart(c \o s, n, c)

\* An optional value (T | null | undefined) is <<>> or <<v>>
None == <<>>
Some(v) == <<v>>

-----------------------------------------------------------------------------
(* lib/auth.ts: hashing and tokens *)

JWT_SECRET == "your-secret-key-change-in-production"

\* expiresIn: '24h', in hours (the unit of `now`)
ExpiresIn == 24

\* bcrypt.hash(password, 10): the salt is not modelled, the hash is a one-way
\* tag of the plaintext
hashPassword(password) == "$2a$10$" \o password

\* bcrypt.compare(password, hash)
bcryptCompare(password, hash) == hash = hashPassword(password)

\* jwt.sign(payload, key, {expiresIn: '24h'}) at time t
jwtSign(employee, key, t) ==
    [form |-> "jwt", key |-> key, iat |-> t,
     employeeCode |-> employee.employeeCode, email |-> employee.email,
     id |-> employee.id, role |-> employee.role]

\* jwt.verify called with ignoreExpiration (a faulty variant, used to show
\* that C13 depends on the expiry check)
jwtVerifyThrows_IgnoreExpiration(token, key, t) ==
    \/ token.form # "jwt"
    \/ token.key # key

\* jwt.verify(token, key) at time t: throws on a malformed token, a wrong
\* signature and an expired token
jwtVerifyThrows(token, key, t) ==
    \/ token.form # "jwt"
    \/ token.key # key
    \/ t >= token.iat + ExpiresIn

\* verifyToken written with jwt.decode in place of jwt.verify: neither the
\* signature nor the expiry is checked (a faulty variant, used to show that
\* C5 depends on verifyToken)
verifyToken_Decode(token, t) ==
    IF token.form # "jwt"
    THEN None
    ELSE Some([employeeCode |-> token.employeeCode, email |-> token.email,
               id |-> token.id, role |-> token.role])

\* verifyToken(token) at time t: the decoded payload, or null
verifyToken(token, t) ==
    IF jwtVerifyThrows(token, JWT_SECRET, t)
    THEN None
    ELSE Some([employeeCode |-> token.employeeCode, email |-> token.email,
               id |-> token.id, role |-> token.role])

\* authenticateRequest(request) at time t: the `user` of its result.  The
\* cookie header is None (no header), Some(None) (a header without an
\* auth-token cookie) or Some(Some(token)).
authenticateRequest(cookieHeader, t) ==
    IF cookieHeader = None THEN None
    ELSE IF cookieHeader[1] = None THEN None
    ELSE verifyToken(cookieHeader[1][1], t)

-----------------------------------------------------------------------------
(* lib/database.ts: the tables *)

VARIABLES
    employees,      \* rows of table employees
    customers,      \* rows of table customers
    empSeq,         \* sqlite_sequence of employees (AUTOINCREMENT)
    custSeq,        \* sqlite_sequence of customers (AUTOINCREMENT)
    now,            \* the clock, in hours
    sessions,       \* tokens issued by login so far
    slots,          \* the requests being served, one per slot
    last,           \* the request the latest step answered, with its response
    served,         \* number of requests that have arrived
    empLog,         \* history: per employees.id ever inserted, its code
    custLog,        \* history: per customers.id ever inserted, code and owner
    empDels,        \* history: number of DELETEs that removed an employee
    custDels,       \* history: number of DELETEs that removed a customer
    boots           \* history: number of times the constructor has run

store == <<employees, customers, empSeq, custSeq>>
history == <<empLog, custLog, empDels, custDels, boots>>
vars == <<employees, customers, empSeq, custSeq, now, sessions, slots, last,
          served, empLog, custLog, empDels, custDels, boots>>

\* The id of a plain INTEGER PRIMARY KEY, one more than the largest id in the
\* table (a faulty variant, used to show that C28 and C30 depend on
\* AUTOINCREMENT)
nextId_Rowid(rows, seq) ==
    IF rows = {} THEN 1
    ELSE 1 + CHOOSE m \in {r.id : r \in rows} : \A r \in rows : r.id <= m

\* The id an INSERT gives its row, lastID: with INTEGER PRIMARY KEY
\* AUTOINCREMENT, one more than the largest id the table has ever held,
\* which sqlite_sequence keeps
nextId(rows, seq) == seq + 1

\* The row initTables inserts when no employee has the code ADMIN001
AdminRow(id) ==
    [id |-> id, employeeCode |-> "ADMIN001", firstname |-> "Admin",
     lastname |-> "User", mobile |-> "1234567890",
     dateOfBirth |-> "1990-01-01", email |-> "admin@cms.com",
     password |-> hashPassword("admin123"), role |-> "admin"]

\* initTables with INSERT OR REPLACE in place of the lookup and the INSERT (a
\* faulty variant, used to show that C18 depends on the lookup)
initTables_Replace(emps, seq) ==
    {e \in emps : e.employeeCode # "ADMIN001" /\ e.email # "admin@cms.com"}
    \cup {AdminRow(seq + 1)}

\* initTables on the table `emps` with sequence `seq`: the employees after
\* it.  The INSERT has no callback: when UNIQUE(email) refuses it, nothing
\* is inserted and nothing reports it.
initTables(emps, seq) ==
    IF \E e \in emps : e.employeeCode = "ADMIN001"
    THEN emps
    ELSE IF \E e \in emps : e.email = "admin@cms.com"
    THEN emps
    ELSE emps \cup {AdminRow(nextId(emps, seq))}

\* generateUniqueEmployeeCode: SELECT COUNT(*), then format count + 1
generateUniqueEmployeeCode(emps) ==
    "EMP" \o padStart(ToString(Cardinality(emps) + 1), 3, "0")

\* generateUniqueCustomerCode
generateUniqueCustomerCode(custs) ==
    "CUST" \o padStart(ToString(Cardinality(custs) + 1), 3, "0")

\* employeeInsertViolations with employeeCode declared without UNIQUE (a
\* faulty variant, used to show that C1 depends on the constraint)
employeeInsertViolations_EmailOnly(emps, code, email) ==
    {c \in {"employees.email"} : \E e \in emps : e.email = email}

\* The UNIQUE constraints an INSERT INTO employees of (code, email) violates
employeeInsertViolations(emps, code, email) ==
    {c \in {"employees.employeeCode"} : \E e \in emps : e.employeeCode = code}
    \cup {c \in {"employees.email"} : \E e \in emps : e.email = email}

\* The UNIQUE constraints an INSERT INTO customers of (code, email) violates
customerInsertViolations(custs, code, email) ==
    {c \in {"customers.customerCode"} : \E e \in custs : e.customerCode = code}
    \cup {c \in {"customers.email"} : \E e \in custs : e.email = email}

\* The row createEmployee inserts for `employee` (the handler's argument)
employeeRow(id, code, employee) ==
    [id |-> id, employeeCode |-> code, firstname |-> employee.firstname,
     lastname |-> employee.lastname, mobile |-> employee.mobile,
     dateOfBirth |-> employee.dateOfBirth, email |-> employee.email,
     password |-> hashPassword(employee.password),
     role |-> IF Falsy(employee.role) THEN "user" ELSE employee.role]

\* customerRow with createdBy not passed on to the INSERT (a faulty variant,
\* used to show that C9 depends on customerRow)
customerRow_NoOwner(id, code, customer, createdBy) ==
    [id |-> id, customerCode |-> code, firstname |-> customer.firstname,
     lastname |-> customer.lastname, mobile |-> customer.mobile,
     dateOfBirth |-> customer.dateOfBirth, email |-> customer.email,
     createdBy |-> NULL]

\* The row createCustomer inserts; createdBy || null
customerRow(id, code, customer, createdBy) ==
    [id |-> id, customerCode |-> code, firstname |-> customer.firstname,
     lastname |-> customer.lastname, mobile |-> customer.mobile,
     dateOfBirth |-> customer.dateOfBirth, email |-> customer.email,
     createdBy |-> IF createdBy = 0 THEN NULL ELSE createdBy]

\* Object.keys(updates).filter(key => updates[key] !== undefined)
updateFields(updates) ==
    {k \in DOMAIN updates :
        IF k = "createdBy" THEN updates[k] # None ELSE updates[k] # Undefined}

\* updatedEmployeeRow with a SET clause that names every column of `updates`
\* (a faulty variant, used to show that C15 depends on the filter of the
\* fields)
updatedEmployeeRow_EveryColumn(row, updates) ==
    [k \in DOMAIN row |->
        IF k \in DOMAIN updates
        THEN (IF updates[k] = Undefined THEN "" ELSE updates[k])
        ELSE row[k]]

\* UPDATE employees SET <fields of updates> WHERE id = ? applied to one row
updatedEmployeeRow(row, updates) ==
    [k \in DOMAIN row |->
        IF k \in updateFields(updates) THEN updates[k] ELSE row[k]]

\* UPDATE customers SET <fields of updates> WHERE id = ? applied to one row;
\* createdBy is a column an update may name (Partial<Omit<Customer, 'id' |
\* 'customerCode'>>), carried as an optional number
updatedCustomerRow(row, updates) ==
    [k \in DOMAIN row |->
        IF k \in updateFields(updates)
        THEN (IF k = "createdBy" THEN updates[k][1] ELSE updates[k])
        ELSE row[k]]

\* An UPDATE of row `id` to `email` violates UNIQUE(email)
updateViolatesEmail(rows, id, updates) ==
    /\ "email" \in updateFields(updates)
    /\ \E r \in rows : r.id = id
    /\ \E r \in rows : r.id # id /\ r.email = updates.email

\* getAllCustomers(employeeId): `if (employeeId)` adds WHERE createdBy = ?
getAllCustomers(custs, employeeId) ==
    IF employeeId # None /\ employeeId[1] # 0
    THEN {c \in custs : c.createdBy = employeeId[1]}
    ELSE custs

\* getEmployeeByCode(employeeCode): `row || null`
getEmployeeByCode(emps, employeeCode) ==
    IF \E e \in emps : e.employeeCode = employeeCode
    THEN Some(CHOOSE e \in emps : e.employeeCode = employeeCode)
    ELSE None

\* getAllEmployees written with SELECT * (a faulty variant, used to show that
\* C22 depends on the list of columns)
getAllEmployees_Star(emps) == emps

\* getAllEmployees: every column but password
getAllEmployees(emps) ==
    {[k \in DOMAIN e \ {"password"} |-> e[k]] : e \in emps}

-----------------------------------------------------------------------------
(* The requests *)

\* A request body (or query string): every property a handler destructures,
\* Undefined where the request does not carry it.  createdBy is a property
\* no handler reads; a caller may send it all the same.
Body(id, firstname, lastname, mobile, dateOfBirth, email, password, role, employeeCode, createdBy) ==
    [id |-> id, firstname |-> firstname, lastname |-> lastname,
     mobile |-> mobile, dateOfBirth |-> dateOfBirth, email |-> email,
     password |-> password, role |-> role, employeeCode |-> employeeCode,
     createdBy |-> createdBy]

EmptyBody ==
    Body(Undefined, Undefined, Undefined, Undefined, Undefined, Undefined,
         Undefined, Undefined, Undefined, None)

\* A slot that serves no request
Idle ==
    [pc |-> "idle", route |-> "", method |-> "", cookie |-> None,
     body |-> EmptyBody, user |-> None, code |-> "", status |-> 0,
     message |-> "", payload |-> {}, err |-> {}, setCookie |-> None]

\* The handler has been entered with these inputs
Request(route, method, cookie, body, user) ==
    [Idle EXCEPT !.pc = "running", !.route = route, !.method = method,
                 !.cookie = cookie, !.body = body, !.user = user]

\* NextResponse.json({error | message}, {status})
Respond(r, status, message) ==
    [r EXCEPT !.pc = "done", !.status = status, !.message = message]

\* NextResponse.json({message, <entity or list>}, {status})
RespondWith(r, status, message, payload) ==
    [r EXCEPT !.pc = "done", !.status = status, !.message = message,
              !.payload = payload]

\* A catch block that answers as if the call had succeeded (a faulty
\* variant, used to show that C25 depends on the error response)
Caught_Swallowed(r, err) ==
    [r EXCEPT !.pc = "done", !.status = 200, !.message = "", !.err = err]

\* The catch block of a handler: console.error(err), then 500
Caught(r, err) ==
    [r EXCEPT !.pc = "done", !.status = 500,
              !.message = "Internal server error", !.err = err]

\* The handler awaits the database call `call`
Await(r, call) == [r EXCEPT !.pc = call]

\* The employee object of the POST and PUT responses of api/employees
employeeJson(e) ==
    [id |-> e.id, employeeCode |-> e.employeeCode, firstname |-> e.firstname,
     lastname |-> e.lastname, mobile |-> e.mobile,
     dateOfBirth |-> e.dateOfBirth, email |-> e.email, role |-> e.role]

\* The customer object of the POST and PUT responses of api/customers
customerJson(c) ==
    [id |-> c.id, customerCode |-> c.customerCode, firstname |-> c.firstname,
     lastname |-> c.lastname, mobile |-> c.mobile,
     dateOfBirth |-> c.dateOfBirth, email |-> c.email]

\* `updates` of PUT api/employees: the properties that are not undefined
employeeUpdates(body) ==
    [firstname |-> body.firstname, lastname |-> body.lastname,
     mobile |-> body.mobile, dateOfBirth |-> body.dateOfBirth,
     email |-> body.email, role |-> body.role]

\* customerUpdates copying the body's createdBy like the other properties (a
\* faulty variant, used to show that C10 depends on the whitelist)
customerUpdates_WithCreatedBy(body) ==
    [firstname |-> body.firstname, lastname |-> body.lastname,
     mobile |-> body.mobile, dateOfBirth |-> body.dateOfBirth,
     email |-> body.email, createdBy |-> body.createdBy]

\* `updates` of PUT api/customers: the properties that are not undefined
customerUpdates(body) ==
    [firstname |-> body.firstname, lastname |-> body.lastname,
     mobile |-> body.mobile, dateOfBirth |-> body.dateOfBirth,
     email |-> body.email, createdBy |-> None]

\* employeesAdmin without the check of password.length (a faulty variant,
\* used to show that C20 depends on it)
employeesAdmin_NoLengthCheck(r) ==
    IF r.method = "GET" THEN Await(r, "getAllEmployees")
    ELSE IF r.method = "POST" THEN
        IF \/ Falsy(r.body.firstname) \/ Falsy(r.body.lastname)
           \/ Falsy(r.body.mobile) \/ Falsy(r.body.dateOfBirth)
           \/ Falsy(r.body.email) \/ Falsy(r.body.password)
        THEN Respond(r, 400, "All fields are required")
        ELSE Await(r, "generateCode")
    ELSE IF r.method = "PUT" THEN
        IF Falsy(r.body.id) THEN Respond(r, 400, "Employee ID is required")
        ELSE IF updateFields(employeeUpdates(r.body)) = {}
        THEN Respond(r, 400, "No fields to update")
        ELSE Await(r, "update")
    ELSE
        IF Falsy(r.body.id) THEN Respond(r, 400, "Employee ID is required")
        ELSE Await(r, "delete")

\* employeesAdmin without the check of Object.keys(updates).length (a faulty
\* variant, used to show that C14 depends on it)
employeesAdmin_NoEmptyCheck(r) ==
    IF r.method = "GET" THEN Await(r, "getAllEmployees")
    ELSE IF r.method = "POST" THEN
        IF \/ Falsy(r.body.firstname) \/ Falsy(r.body.lastname)
           \/ Falsy(r.body.mobile) \/ Falsy(r.body.dateOfBirth)
           \/ Falsy(r.body.email) \/ Falsy(r.body.password)
        THEN Respond(r, 400, "All fields are required")
        ELSE IF Len(r.body.password) < 6
        THEN Respond(r, 400, "Password must be at least 6 characters")
        ELSE Await(r, "generateCode")
    ELSE IF r.method = "PUT" THEN
        IF Falsy(r.body.id) THEN Respond(r, 400, "Employee ID is required")
        ELSE Await(r, "update")
    ELSE
        IF Falsy(r.body.id) THEN Respond(r, 400, "Employee ID is required")
        ELSE Await(r, "delete")

\* api/employees past the session and role checks, up to the first database
\* call
employeesAdmin(r) ==
    IF r.method = "GET" THEN Await(r, "getAllEmployees")
    ELSE IF r.method = "POST" THEN
        IF \/ Falsy(r.body.firstname) \/ Falsy(r.body.lastname)
           \/ Falsy(r.body.mobile) \/ Falsy(r.body.dateOfBirth)
           \/ Falsy(r.body.email) \/ Falsy(r.body.password)
        THEN Respond(r, 400, "All fields are required")
        ELSE IF Len(r.body.password) < 6
        THEN Respond(r, 400, "Password must be at least 6 characters")
        ELSE Await(r, "generateCode")
    ELSE IF r.method = "PUT" THEN
        IF Falsy(r.body.id) THEN Respond(r, 400, "Employee ID is required")
        ELSE IF updateFields(employeeUpdates(r.body)) = {}
        THEN Respond(r, 400, "No fields to update")
        ELSE Await(r, "update")
    ELSE
        IF Falsy(r.body.id) THEN Respond(r, 400, "Employee ID is required")
        ELSE Await(r, "delete")

\* employeesPrefix reading the caller's role from the table (a faulty
\* variant, used to show that C26 depends on the role of the token)
employeesPrefix_CurrentRole(r) ==
    IF r.user = None THEN Respond(r, 401, "Unauthorized")
    ELSE IF ~\E e \in employees : e.id = r.user[1].id /\ e.role = "admin"
    THEN Respond(r, 403, "Access denied. Admin only.")
    ELSE employeesAdmin(r)

\* employeesPrefix validating the body before the role check (a faulty
\* variant, used to show that C21 depends on the order of the checks)
employeesPrefix_ValidateFirst(r) ==
    IF r.user = None THEN Respond(r, 401, "Unauthorized")
    ELSE IF employeesAdmin(r).status = 400 THEN employeesAdmin(r)
    ELSE IF r.user[1].role # "admin"
    THEN Respond(r, 403, "Access denied. Admin only.")
    ELSE employeesAdmin(r)

\* employeesPrefix with the role check missing from DELETE (a faulty variant,
\* used to show that C6 depends on the role checks)
employeesPrefix_DeleteUnchecked(r) ==
    IF r.user = None THEN Respond(r, 401, "Unauthorized")
    ELSE IF r.user[1].role # "admin" /\ r.method # "DELETE"
    THEN Respond(r, 403, "Access denied. Admin only.")
    ELSE employeesAdmin(r)

\* api/employees, up to the first database call: every handler starts with
\* the session check and the role check
employeesPrefix(r) ==
    IF r.user = None THEN Respond(r, 401, "Unauthorized")
    ELSE IF r.user[1].role # "admin"
    THEN Respond(r, 403, "Access denied. Admin only.")
    ELSE employeesAdmin(r)

\* PUT and DELETE api/customers once the caller may act on the record
customersProceed(r) ==
    IF r.method = "PUT" THEN
        IF updateFields(customerUpdates(r.body)) = {}
        THEN Respond(r, 400, "No fields to update")
        ELSE Await(r, "update")
    ELSE Await(r, "delete")

\* api/customers, up to the first database call
customersPrefix(r) ==
    IF r.user = None THEN Respond(r, 401, "Unauthorized")
    ELSE IF r.method = "GET" THEN Await(r, "getAllCustomers")
    ELSE IF r.method = "POST" THEN
        IF \/ Falsy(r.body.firstname) \/ Falsy(r.body.lastname)
           \/ Falsy(r.body.mobile) \/ Falsy(r.body.dateOfBirth)
           \/ Falsy(r.body.email)
        THEN Respond(r, 400, "All fields are required")
        ELSE Await(r, "generateCode")
    ELSE
        IF Falsy(r.body.id) THEN Respond(r, 400, "Customer ID is required")
        ELSE IF r.user[1].role # "admin" THEN Await(r, "getCustomerById")
        ELSE customersProceed(r)

\* customersOwnership letting a caller through when no record has the id (a
\* faulty variant, used to show that C16 depends on the refusal)
customersOwnership_AbsentProceeds(r, customer) ==
    IF customer # None /\ customer[1].createdBy # r.user[1].id
    THEN Respond(r, 403, "Access denied")
    ELSE customersProceed(r)

\* customersOwnership where the record only has to exist (a faulty variant,
\* used to show that C7 depends on the owner comparison)
customersOwnership_ExistsOnly(r, customer) ==
    IF customer = None
    THEN Respond(r, 403, "Access denied")
    ELSE customersProceed(r)

\* The ownership check of PUT and DELETE api/customers on the row read
customersOwnership(r, customer) ==
    IF customer = None \/ customer[1].createdBy # r.user[1].id
    THEN Respond(r, 403, "Access denied")
    ELSE customersProceed(r)

\* GET api/auth/me
mePrefix(r) ==
    IF r.user = None THEN Respond(r, 401, "Unauthorized")
    ELSE RespondWith(r, 200, "",
            {[id |-> r.user[1].id, employeeCode |-> r.user[1].employeeCode,
              email |-> r.user[1].email, role |-> r.user[1].role]})

\* POST api/auth/login, up to authenticateUser
loginPrefix(r) ==
    IF Falsy(r.body.employeeCode) \/ Falsy(r.body.password)
    THEN Respond(r, 400, "Employee code and password are required")
    ELSE Await(r, "getEmployeeByCode")

\* loginFinish answering an unknown code with a message of its own (a faulty
\* variant, used to show that C11 depends on the shared answer)
loginFinish_UnknownCode(r, employee, t) ==
    IF employee = None
    THEN Respond(r, 404, "Employee not found")
    ELSE IF ~bcryptCompare(r.body.password, employee[1].password)
    THEN Respond(r, 401, "Invalid employee code or password")
    ELSE [RespondWith(r, 200, "Login successful",
            {[k \in DOMAIN employee[1] \ {"password"} |-> employee[1][k]]})
          EXCEPT !.setCookie = Some(jwtSign(employee[1], JWT_SECRET, t))]

\* loginFinish without bcrypt.compare (a faulty variant, used to show that
\* C12 depends on the comparison)
loginFinish_NoCompare(r, employee, t) ==
    IF employee = None
    THEN Respond(r, 401, "Invalid employee code or password")
    ELSE [RespondWith(r, 200, "Login successful",
            {[k \in DOMAIN employee[1] \ {"password"} |-> employee[1][k]]})
          EXCEPT !.setCookie = Some(jwtSign(employee[1], JWT_SECRET, t))]

\* authenticateUser(credentials) on the row getEmployeeByCode resolved, and
\* the rest of POST api/auth/login
loginFinish(r, employee, t) ==
    IF employee = None
    THEN Respond(r, 401, "Invalid employee code or password")
    ELSE IF ~bcryptCompare(r.body.password, employee[1].password)
    THEN Respond(r, 401, "Invalid employee code or password")
    ELSE [RespondWith(r, 200, "Login successful",
            {[k \in DOMAIN employee[1] \ {"password"} |-> employee[1][k]]})
          EXCEPT !.setCookie = Some(jwtSign(employee[1], JWT_SECRET, t))]

-----------------------------------------------------------------------------
(* The state after construction, and the steps *)

Init ==
    /\ employees = initTables({}, 0)
    /\ customers = {}
    /\ empSeq = 1
    /\ custSeq = 0
    /\ now = 0
    /\ sessions = {}
    /\ slots = [s \in Slots |-> Idle]
    /\ last = Idle
    /\ served = 0
    /\ empLog = <<[code |-> "ADMIN001", dels |-> 0]>>
    /\ custLog = <<>>
    /\ empDels = 0
    /\ custDels = 0
    /\ boots = 1

\* The request in slot s has become r: a response frees the slot and is what
\* the step answered, anything else waits in the slot for its database call
Settle(s, r) ==
    IF r.pc = "done"
    THEN slots' = [slots EXCEPT ![s] = Idle] /\ last' = r
    ELSE slots' = [slots EXCEPT ![s] = r] /\ last' = Idle

\* The requests in flight that will insert into `route`, or issue a token
InFlight(route) ==
    {s \in Slots : slots[s].route = route
                   /\ slots[s].pc \in {"generateCode", "insert",
                                       "getEmployeeByCode"}}

\* The bounds of the model: ids and tokens a request about to start may use up
WithinBounds(r) ==
    /\ (r.pc = "generateCode" /\ r.route = "employees")
          => empSeq + Cardinality(InFlight("employees")) < MaxEmpId
    /\ (r.pc = "generateCode" /\ r.route = "customers")
          => custSeq + Cardinality(InFlight("customers")) < MaxCustId
    /\ r.pc = "getEmployeeByCode"
          => Cardinality(sessions) + Cardinality(InFlight("login")) < MaxSessions

\* The row of `rows` with id `id`, as db.get resolves it
rowById(rows, id) ==
    IF \E r \in rows : r.id = id
    THEN Some(CHOOSE r \in rows : r.id = id)
    ELSE None

\* The handler of `route` runs from its entry to its first database call
routePrefix(r) ==
    IF r.route = "employees" THEN employeesPrefix(r)
    ELSE IF r.route = "customers" THEN customersPrefix(r)
    ELSE IF r.route = "me" THEN mePrefix(r)
    ELSE loginPrefix(r)

\* A request arrives in a free slot and runs to its first database call
Start(s, route, method, cookie, body) ==
    /\ slots[s].pc = "idle"
    /\ LET user == IF route = "login" THEN None
                   ELSE authenticateRequest(cookie, now)
           r == routePrefix(Request(route, method, cookie, body, user))
       IN  /\ WithinBounds(r)
           /\ Settle(s, r)
    /\ served' = served + 1
    /\ UNCHANGED <<store, now, sessions, history>>

\* createEmployee: await generateUniqueEmployeeCode()
GenerateEmployeeCode(s) ==
    /\ slots[s].pc = "generateCode" /\ slots[s].route = "employees"
    /\ Settle(s,
                    [Await(slots[s], "insert") EXCEPT
                        !.code = generateUniqueEmployeeCode(employees)])
    /\ UNCHANGED <<store, now, served, sessions, history>>

\* createEmployee: the INSERT, then the rest of POST api/employees
InsertEmployee(s) ==
    /\ slots[s].pc = "insert" /\ slots[s].route = "employees"
    /\ LET r == slots[s]
           viol == employeeInsertViolations(employees, r.code, r.body.email)
           row == employeeRow(nextId(employees, empSeq), r.code, r.body)
       IN  IF viol = {}
           THEN /\ employees' = employees \cup {row}
                /\ empSeq' = row.id
                /\ empLog' = Append(empLog, [code |-> r.code, dels |-> empDels])
                /\ Settle(s,
                        RespondWith(r, 201, "Employee created successfully",
                                    {employeeJson(row)}))
           ELSE /\ Settle(s, Caught(r, viol))
                /\ UNCHANGED <<employees, empSeq, empLog>>
    /\ UNCHANGED <<customers, custSeq, now, served, sessions, custLog, empDels,
                   custDels, boots>>

\* createCustomer: await generateUniqueCustomerCode()
GenerateCustomerCode(s) ==
    /\ slots[s].pc = "generateCode" /\ slots[s].route = "customers"
    /\ Settle(s,
                    [Await(slots[s], "insert") EXCEPT
                        !.code = generateUniqueCustomerCode(customers)])
    /\ UNCHANGED <<store, now, served, sessions, history>>

\* createCustomer: the INSERT, then the rest of POST api/customers
InsertCustomer(s) ==
    /\ slots[s].pc = "insert" /\ slots[s].route = "customers"
    /\ LET r == slots[s]
           viol == customerInsertViolations(customers, r.code, r.body.email)
           row == customerRow(nextId(customers, custSeq), r.code, r.body,
                              r.user[1].id)
       IN  IF viol = {}
           THEN /\ customers' = customers \cup {row}
                /\ custSeq' = row.id
                /\ custLog' = Append(custLog,
                        [code |-> r.code, createdBy |-> row.createdBy,
                         dels |-> custDels])
                /\ Settle(s,
                        RespondWith(r, 201, "Customer created successfully",
                                    {customerJson(row)}))
           ELSE /\ Settle(s, Caught(r, viol))
                /\ UNCHANGED <<customers, custSeq, custLog>>
    /\ UNCHANGED <<employees, empSeq, now, served, sessions, empLog, empDels,
                   custDels, boots>>

\* updateEmployee: null without a statement when no field is left, else the
\* UPDATE; `changes` decides between null and the SELECT
UpdateEmployee(s) ==
    /\ slots[s].pc = "update" /\ slots[s].route = "employees"
    /\ LET r == slots[s]
           id == ParseInt(r.body.id)
           updates == employeeUpdates(r.body)
       IN  IF updateViolatesEmail(employees, id, updates)
           THEN /\ Settle(s, Caught(r, {"employees.email"}))
                /\ UNCHANGED employees
           ELSE IF updateFields(updates) = {} \/ rowById(employees, id) = None
           THEN /\ Settle(s,
                                Respond(r, 404, "Employee not found"))
                /\ UNCHANGED employees
           ELSE /\ employees' =
                     {IF e.id = id THEN updatedEmployeeRow(e, updates) ELSE e
                        : e \in employees}
                /\ Settle(s, Await(r, "select"))
    /\ UNCHANGED <<customers, empSeq, custSeq, now, served, sessions, history>>

\* updateEmployee: the SELECT of the updated row, then the rest of PUT
SelectEmployee(s) ==
    /\ slots[s].pc = "select" /\ slots[s].route = "employees"
    /\ LET r == slots[s]
           row == rowById(employees, ParseInt(r.body.id))
       IN  Settle(s,
                IF row = None THEN Respond(r, 404, "Employee not found")
                ELSE RespondWith(r, 200, "Employee updated successfully",
                                 {employeeJson(row[1])}))
    /\ UNCHANGED <<store, now, served, sessions, history>>

\* deleteEmployee, then the rest of DELETE api/employees
DeleteEmployee(s) ==
    /\ slots[s].pc = "delete" /\ slots[s].route = "employees"
    /\ LET r == slots[s]
           id == ParseInt(r.body.id)
       IN  IF rowById(employees, id) = None
           THEN /\ Settle(s,
                                Respond(r, 404, "Employee not found"))
                /\ UNCHANGED <<employees, empDels>>
           ELSE /\ employees' = {e \in employees : e.id # id}
                /\ empDels' = empDels + 1
                /\ Settle(s,
                                Respond(r, 200, "Employee deleted successfully"))
    /\ UNCHANGED <<customers, empSeq, custSeq, now, served, sessions, empLog, custLog,
                   custDels, boots>>

\* getAllEmployees, then the rest of GET api/employees
GetAllEmployees(s) ==
    /\ slots[s].pc = "getAllEmployees"
    /\ Settle(s,
                    RespondWith(slots[s], 200, "", getAllEmployees(employees)))
    /\ UNCHANGED <<store, now, served, sessions, history>>

\* getCustomerById, then the ownership check of PUT and DELETE api/customers
GetCustomerById(s) ==
    /\ slots[s].pc = "getCustomerById"
    /\ Settle(s,
            customersOwnership(slots[s],
                rowById(customers, ParseInt(slots[s].body.id))))
    /\ UNCHANGED <<store, now, served, sessions, history>>

\* updateCustomer: null without a statement when no field is left, else the
\* UPDATE; `changes` decides between null and the SELECT
UpdateCustomer(s) ==
    /\ slots[s].pc = "update" /\ slots[s].route = "customers"
    /\ LET r == slots[s]
           id == ParseInt(r.body.id)
           updates == customerUpdates(r.body)
       IN  IF updateViolatesEmail(customers, id, updates)
           THEN /\ Settle(s, Caught(r, {"customers.email"}))
                /\ UNCHANGED customers
           ELSE IF updateFields(updates) = {} \/ rowById(customers, id) = None
           THEN /\ Settle(s,
                                Respond(r, 404, "Customer not found"))
                /\ UNCHANGED customers
           ELSE /\ customers' =
                     {IF c.id = id THEN updatedCustomerRow(c, updates) ELSE c
                        : c \in customers}
                /\ Settle(s, Await(r, "select"))
    /\ UNCHANGED <<employees, empSeq, custSeq, now, served, sessions, history>>

\* updateCustomer: the SELECT of the updated row, then the rest of PUT
SelectCustomer(s) ==
    /\ slots[s].pc = "select" /\ slots[s].route = "customers"
    /\ LET r == slots[s]
           row == rowById(customers, ParseInt(r.body.id))
       IN  Settle(s,
                IF row = None THEN Respond(r, 404, "Customer not found")
                ELSE RespondWith(r, 200, "Customer updated successfully",
                                 {customerJson(row[1])}))
    /\ UNCHANGED <<store, now, served, sessions, history>>

\* deleteCustomer, then the rest of DELETE api/customers
DeleteCustomer(s) ==
    /\ slots[s].pc = "delete" /\ slots[s].route = "customers"
    /\ LET r == slots[s]
           id == ParseInt(r.body.id)
       IN  IF rowById(customers, id) = None
           THEN /\ Settle(s,
                                Respond(r, 404, "Customer not found"))
                /\ UNCHANGED <<customers, custDels>>
           ELSE /\ customers' = {c \in customers : c.id # id}
                /\ custDels' = custDels + 1
                /\ Settle(s,
                                Respond(r, 200, "Customer deleted successfully"))
    /\ UNCHANGED <<employees, empSeq, custSeq, now, served, sessions, empLog, custLog,
                   empDels, boots>>

\* listFilter scoping no caller (a faulty variant, used to show that C8
\* depends on the filter)
listFilter_Unscoped(user) == None

\* The owner filter GET api/customers passes to getAllCustomers
listFilter(user) == IF user.role = "admin" THEN None ELSE Some(user.id)

\* getAllCustomers, then the rest of GET api/customers
GetAllCustomers(s) ==
    /\ slots[s].pc = "getAllCustomers"
    /\ Settle(s,
            RespondWith(slots[s], 200, "",
                getAllCustomers(customers, listFilter(slots[s].user[1]))))
    /\ UNCHANGED <<store, now, served, sessions, history>>

\* authenticateUser: getEmployeeByCode, then the rest of POST api/auth/login;
\* the token of a successful login goes out in the auth-token cookie
GetEmployeeByCode(s) ==
    /\ slots[s].pc = "getEmployeeByCode"
    /\ LET r == slots[s]
           employee == getEmployeeByCode(employees, r.body.employeeCode)
           done == loginFinish(r, employee, now)
       IN  /\ Settle(s, done)
           /\ sessions' = IF done.setCookie = None THEN sessions
                          ELSE sessions \cup {done.setCookie[1]}
    /\ UNCHANGED <<store, now, served, history>>

\* The server process starts again on the same database file: the requests
\* in flight are lost and the constructor runs initTables
Restart ==
    /\ boots < MaxBoots
    /\ boots' = boots + 1
    /\ ~(\E e \in employees : e.employeeCode = "ADMIN001") => empSeq < MaxEmpId
    /\ LET after == initTables(employees, empSeq)
       IN  IF after = employees
           THEN UNCHANGED <<employees, empSeq, empLog>>
           ELSE /\ employees' = after
                /\ empSeq' = nextId(employees, empSeq)
                /\ empLog' = Append(empLog,
                                [code |-> "ADMIN001", dels |-> empDels])
    /\ slots' = [s \in Slots |-> Idle]
    /\ last' = Idle
    /\ UNCHANGED <<customers, custSeq, now, sessions, served, custLog,
                   empDels, custDels>>

\* Half a validity window passes while no request is being answered
Tick ==
    /\ now + ExpiresIn \div 2 <= MaxNow
    /\ now' = now + ExpiresIn \div 2
    /\ last' = Idle
    /\ UNCHANGED <<store, sessions, slots, served, history>>

-----------------------------------------------------------------------------
(* The requests the model sends *)

Emails == {"a@x.com", "b@x.com"}

\* A token signed with a key that is not the server's, claiming the
\* administrator's identity
ForgedToken == jwtSign(AdminRow(1), "attacker-key", 0)

\* A cookie value that is no JWT
MalformedToken == [jwtSign(AdminRow(1), JWT_SECRET, 0) EXCEPT !.form = "garbage"]

\* A token the server issued to the administrator before it was restarted,
\* ExpiresIn hours before the clock of the model starts
ExpiredToken == jwtSign(AdminRow(1), JWT_SECRET, 0 - ExpiresIn)

\* Cookie headers without a token the server accepts
BadCookies ==
    {None, Some(None), Some(Some(ForgedToken)), Some(Some(MalformedToken)),
     Some(Some(ExpiredToken))}

\* Cookie headers carrying a token login has issued
GoodCookies == {Some(Some(t)) : t \in sessions}

NewEmployee(email, password, role) ==
    Body(Undefined, "Ann", "Lee", "555", "2000-01-01", email, password, role,
         Undefined, None)

NewCustomer(email) ==
    Body(Undefined, "Cyd", "Ray", "777", "1999-09-09", email, Undefined,
         Undefined, Undefined, None)

Credentials(employeeCode, password) ==
    [EmptyBody EXCEPT !.employeeCode = employeeCode, !.password = password]

ById(id) == [EmptyBody EXCEPT !.id = id]

Req(route, method, cookie, body) ==
    [route |-> route, method |-> method, cookie |-> cookie, body |-> body]

\* One request per operation of the API, with the cookie header c
EveryOperation(c) ==
    {Req("me", "GET", c, EmptyBody),
     Req("employees", "GET", c, EmptyBody),
     Req("employees", "POST", c, NewEmployee("a@x.com", "secret1", Undefined)),
     Req("employees", "PUT", c, [ById("2") EXCEPT !.firstname = "Bob"]),
     Req("employees", "DELETE", c, ById("2")),
     Req("customers", "GET", c, EmptyBody),
     Req("customers", "POST", c, NewCustomer("a@x.com")),
     Req("customers", "PUT", c, [ById("1") EXCEPT !.firstname = "Bob",
                                                  !.createdBy = Some(2)]),
     Req("customers", "DELETE", c, ById("1"))}

\* The requests of Spec: the administrator and one more employee log in and
\* use every operation
AccessRequests ==
    {Req("login", "POST", None, b) :
        b \in {Credentials("ADMIN001", "admin123"),
               Credentials("EMP002", "secret1")}}
    \cup UNION {EveryOperation(c) : c \in GoodCookies}
    \cup {Req("employees", "POST", c, NewEmployee("a@x.com", "secret1", "manager"))
            : c \in GoodCookies}
    \cup {Req("customers", "POST", c, NewCustomer("b@x.com")) : c \in GoodCookies}
    \cup {Req("customers", "PUT", c, [ById("2") EXCEPT !.firstname = "Bob",
                                                       !.createdBy = Some(2)])
            : c \in GoodCookies}
    \cup {Req("customers", "DELETE", c, ById("2")) : c \in GoodCookies}

\* The requests of SpecDenied: the administrator logs in and fills the
\* tables, and a caller without a valid token uses every operation
DeniedRequests ==
    {Req("login", "POST", None, Credentials("ADMIN001", "admin123"))}
    \cup {Req("employees", "POST", c, NewEmployee("a@x.com", "secret1", Undefined))
            : c \in GoodCookies}
    \cup {Req("customers", "POST", c, NewCustomer("a@x.com")) : c \in GoodCookies}
    \cup UNION {EveryOperation(c) : c \in BadCookies}

\* The requests of SpecCode: the administrator logs in, then creates and
\* deletes employees and customers
CodeRequests ==
    {Req("login", "POST", None, Credentials("ADMIN001", "admin123"))}
    \cup {Req("employees", "POST", c, NewEmployee(e, "secret1", Undefined))
            : c \in GoodCookies, e \in Emails}
    \cup {Req("employees", "DELETE", c, ById(ToString(i)))
            : c \in GoodCookies, i \in 1..MaxEmpId}
    \cup {Req("customers", "POST", c, NewCustomer(e))
            : c \in GoodCookies, e \in Emails}
    \cup {Req("customers", "DELETE", c, ById(ToString(i)))
            : c \in GoodCookies, i \in 1..MaxCustId}

\* The credentials of the logins of SpecSession: right ones, a wrong
\* password, an unknown code, a missing password
SessionCredentials ==
    {Credentials("ADMIN001", "admin123"), Credentials("ADMIN001", "secret1"),
     Credentials("EMP002", "secret1"), Credentials("EMP002", "admin123"),
     Credentials("EMP009", "admin123"), Credentials("ADMIN001", Undefined)}

\* The requests of SpecSession: logins, the creation of an employee and a
\* change of its role, and GET api/auth/me with any token
SessionRequests ==
    {Req("login", "POST", None, b) : b \in SessionCredentials}
    \cup {Req("employees", "POST", c, NewEmployee("a@x.com", "secret1", Undefined))
            : c \in GoodCookies}
    \cup {Req("employees", "PUT", c, [ById("2") EXCEPT !.role = "admin"])
            : c \in GoodCookies}
    \cup {Req("employees", "DELETE", c, ById("2")) : c \in GoodCookies}
    \cup {Req("me", "GET", c, EmptyBody)
            : c \in GoodCookies \cup {Some(Some(ForgedToken)),
                                      Some(Some(MalformedToken)),
                                      Some(Some(ExpiredToken))}}

\* Bodies of POST api/employees that miss a field or carry a short password
InvalidEmployees ==
    {NewEmployee("a@x.com", "12345", Undefined),
     NewEmployee("a@x.com", Undefined, Undefined),
     NewEmployee(Undefined, "secret1", Undefined),
     [NewEmployee("a@x.com", "secret1", Undefined) EXCEPT !.firstname = ""]}

\* Bodies of POST api/customers that miss a field
InvalidCustomers ==
    {NewCustomer(Undefined), [NewCustomer("a@x.com") EXCEPT !.mobile = ""]}

\* Bodies of PUT for the id `id`: one that names the email and properties no
\* update copies, one that names no property, and one without even the id
UpdateBodies(id) ==
    {[ById(id) EXCEPT !.email = "b@x.com", !.password = "hacked1",
                      !.employeeCode = "EMP777", !.createdBy = Some(1)],
     ById(id), EmptyBody}

\* The requests of SpecInput: the administrator and one more employee log
\* in; creations with valid and invalid bodies, updates that name one field,
\* every property or none, and deletions of ids that exist and that do not
InputRequests ==
    {Req("login", "POST", None, b) :
        b \in {Credentials("ADMIN001", "admin123"),
               Credentials("EMP002", "secret1")}}
    \cup {Req("employees", "POST", c, b)
            : c \in GoodCookies,
              b \in {NewEmployee("a@x.com", "secret1", Undefined)}
                        \cup InvalidEmployees}
    \cup {Req("employees", "POST", None, b) : b \in InvalidEmployees}
    \cup {Req("customers", "POST", c, b)
            : c \in GoodCookies,
              b \in {NewCustomer("a@x.com")} \cup InvalidCustomers}
    \cup {Req(route, "PUT", c, b)
            : route \in {"employees", "customers"}, c \in GoodCookies,
              b \in UpdateBodies("1") \cup UpdateBodies("2")}
    \cup {Req(route, "DELETE", c, ById(id))
            : route \in {"employees", "customers"}, c \in GoodCookies,
              id \in {"1", "5"}}

\* The requests of SpecRace: the administrator logs in, creates an employee
\* and a customer, and updates and deletes them
RaceRequests ==
    {Req("login", "POST", None, Credentials("ADMIN001", "admin123"))}
    \cup {Req("employees", "POST", c, NewEmployee("a@x.com", "secret1", Undefined))
            : c \in GoodCookies}
    \cup {Req("customers", "POST", c, NewCustomer("a@x.com")) : c \in GoodCookies}
    \cup {Req("employees", "PUT", c, [ById("2") EXCEPT !.firstname = n])
            : c \in GoodCookies, n \in {"Bob", "Kim"}}
    \cup {Req("customers", "PUT", c, [ById("1") EXCEPT !.firstname = n])
            : c \in GoodCookies, n \in {"Bob", "Kim"}}
    \cup {Req("employees", "PUT", c, [ById("2") EXCEPT !.lastname = "Orr"])
            : c \in GoodCookies}
    \cup {Req("customers", "PUT", c, [ById("1") EXCEPT !.lastname = "Orr"])
            : c \in GoodCookies}
    \cup {Req("employees", "DELETE", c, ById("2")) : c \in GoodCookies}
    \cup {Req("customers", "DELETE", c, ById("1")) : c \in GoodCookies}

\* The requests of SpecOwner: the administrator and one more employee log
\* in, create customers, and update and delete the first customer
OwnerRequests ==
    {Req("login", "POST", None, b) :
        b \in {Credentials("ADMIN001", "admin123"),
               Credentials("EMP002", "secret1")}}
    \cup {Req("employees", "POST", c, NewEmployee("a@x.com", "secret1", Undefined))
            : c \in GoodCookies}
    \cup {Req("customers", "POST", c, NewCustomer("a@x.com"))
            : c \in GoodCookies}
    \cup {Req("customers", "PUT", c, [ById("1") EXCEPT !.firstname = "Bob"])
            : c \in GoodCookies}
    \cup {Req("customers", "DELETE", c, ById("1")) : c \in GoodCookies}

\* A request of the set `requests` arrives in slot s, the lowest free slot;
\* the model stops sending requests after `cap` of them
Arrive(s, requests, cap) ==
    /\ served < cap
    /\ \A t \in 1..(s - 1) : slots[t].pc # "idle"
    /\ \E q \in requests : Start(s, q.route, q.method, q.cookie, q.body)

-----------------------------------------------------------------------------
(* The specifications *)

\* The API served one request at a time
Next ==
    \/ Arrive(1, AccessRequests, MaxAccessRequests)
    \/ GetEmployeeByCode(1)
    \/ GetAllEmployees(1)
    \/ GenerateEmployeeCode(1)
    \/ InsertEmployee(1)
    \/ UpdateEmployee(1)
    \/ SelectEmployee(1)
    \/ DeleteEmployee(1)
    \/ GetAllCustomers(1)
    \/ GenerateCustomerCode(1)
    \/ InsertCustomer(1)
    \/ GetCustomerById(1)
    \/ UpdateCustomer(1)
    \/ SelectCustomer(1)
    \/ DeleteCustomer(1)

Spec == Init /\ [][Next]_vars

\* Creations and deletions served concurrently
NextCode ==
    \E s \in Slots :
        \/ Arrive(s, CodeRequests, MaxCodeRequests)
        \/ GetEmployeeByCode(s)
        \/ GenerateEmployeeCode(s)
        \/ InsertEmployee(s)
        \/ DeleteEmployee(s)
        \/ GenerateCustomerCode(s)
        \/ InsertCustomer(s)
        \/ DeleteCustomer(s)

SpecCode == Init /\ [][NextCode]_vars

\* Callers without a valid token, one request at a time
NextDenied ==
    \/ Arrive(1, DeniedRequests, MaxDeniedRequests)
    \/ GetEmployeeByCode(1)
    \/ GenerateEmployeeCode(1)
    \/ InsertEmployee(1)
    \/ GenerateCustomerCode(1)
    \/ InsertCustomer(1)

SpecDenied == Init /\ [][NextDenied]_vars

\* Logins and sessions while the clock advances, one request at a time
NextSession ==
    \/ Arrive(1, SessionRequests, MaxSessionRequests)
    \/ GetEmployeeByCode(1)
    \/ GenerateEmployeeCode(1)
    \/ InsertEmployee(1)
    \/ UpdateEmployee(1)
    \/ SelectEmployee(1)
    \/ DeleteEmployee(1)
    \/ Tick

SpecSession == Init /\ [][NextSession]_vars

\* Valid and invalid inputs and restarts of the server, one request at a time
NextInput ==
    \/ Arrive(1, InputRequests, MaxInputRequests)
    \/ GetEmployeeByCode(1)
    \/ GenerateEmployeeCode(1)
    \/ InsertEmployee(1)
    \/ UpdateEmployee(1)
    \/ SelectEmployee(1)
    \/ DeleteEmployee(1)
    \/ GenerateCustomerCode(1)
    \/ InsertCustomer(1)
    \/ GetCustomerById(1)
    \/ UpdateCustomer(1)
    \/ SelectCustomer(1)
    \/ DeleteCustomer(1)
    \/ Restart

SpecInput == Init /\ [][NextInput]_vars

\* Updates and deletions of the same record served concurrently
NextRace ==
    \E s \in Slots :
        \/ Arrive(s, RaceRequests, MaxRaceRequests)
        \/ GetEmployeeByCode(s)
        \/ GenerateEmployeeCode(s)
        \/ InsertEmployee(s)
        \/ UpdateEmployee(s)
        \/ SelectEmployee(s)
        \/ DeleteEmployee(s)
        \/ GenerateCustomerCode(s)
        \/ InsertCustomer(s)
        \/ UpdateCustomer(s)
        \/ SelectCustomer(s)
        \/ DeleteCustomer(s)

SpecRace == Init /\ [][NextRace]_vars

\* Customer writes of an owner and of the administrator served concurrently
NextOwner ==
    \E s \in Slots :
        \/ Arrive(s, OwnerRequests, MaxOwnerRequests)
        \/ GetEmployeeByCode(s)
        \/ GenerateEmployeeCode(s)
        \/ InsertEmployee(s)
        \/ GenerateCustomerCode(s)
        \/ InsertCustomer(s)
        \/ GetCustomerById(s)
        \/ UpdateCustomer(s)
        \/ SelectCustomer(s)
        \/ DeleteCustomer(s)

SpecOwner == Init /\ [][NextOwner]_vars

-----------------------------------------------------------------------------
(* Code generation: C1 to C4 *)

\* The codes of the live rows
employeeCodes == {e.employeeCode : e \in employees}
customerCodes == {c.customerCode : c \in customers}

\* No request is in flight
Quiescent == \A s \in Slots : slots[s].pc = "idle"

\* Two entries of a creation log with the same code
SameCode(log, i, j) == i # j /\ log[i].code = log[j].code

\* C1: of the creations of one collection that succeed with no deletion in
\* that collection between them, in any interleaving of their count reads and
\* their inserts, no two return the same code.
C1_ConcurrentCreationsDistinct ==
    /\ \A i, j \in DOMAIN empLog :
            SameCode(empLog, i, j) => empLog[i].dels # empLog[j].dels
    /\ \A i, j \in DOMAIN custLog :
            SameCode(custLog, i, j) => custLog[i].dels # custLog[j].dels

\* Two creations read the same count and minted the same code; one insert
\* succeeded and the other has just been refused by UNIQUE(code)
C1_Witness ==
    /\ last.pc = "done" /\ last.method = "POST" /\ last.status = 500
    /\ \/ /\ last.err = {"employees.employeeCode"}
          /\ empDels = 0
          /\ \E i \in DOMAIN empLog : empLog[i].code = last.code
       \/ /\ last.err = {"customers.customerCode"}
          /\ custDels = 0
          /\ \E i \in DOMAIN custLog : custLog[i].code = last.code

\* C2: a successful creation never returns a code that was issued before in
\* its collection, deleted records included.
C2_CodesNeverReused ==
    /\ \A i, j \in DOMAIN empLog : ~SameCode(empLog, i, j)
    /\ \A i, j \in DOMAIN custLog : ~SameCode(custLog, i, j)

\* C3: with no request in flight, the code the generator computes for the
\* next creation is held by no live record.
C3_NextCodeUnused ==
    Quiescent =>
        /\ generateUniqueEmployeeCode(employees) \notin employeeCodes
        /\ generateUniqueCustomerCode(customers) \notin customerCodes

\* C4: no creation answers with the error of a code taken by a concurrent
\* creation (with no deletion so far, a concurrent creation is the only way
\* a generated code can be taken): it is retried with a fresh code instead.
C4_CollisionRetried ==
    last.pc = "done" /\ last.method = "POST" =>
        /\ empDels = 0 => "employees.employeeCode" \notin last.err
        /\ custDels = 0 => "customers.customerCode" \notin last.err

-----------------------------------------------------------------------------
(* Authentication and authorization: C5 to C10 *)

\* The token is not one the server signed and that is still within its window
FailsVerification(token, t) ==
    \/ token.form # "jwt"
    \/ token.key # JWT_SECRET
    \/ t - token.iat >= ExpiresIn

\* The request carries no session cookie, or a token that fails verification
NoSession(r, t) ==
    \/ r.cookie = None
    \/ r.cookie[1] = None
    \/ FailsVerification(r.cookie[1][1], t)

\* The step answered a request of the routes behind the session check
Answered(r) == r.pc = "done" /\ r.route \in {"me", "employees", "customers"}

\* The step answered a request of `route` whose caller has a valid session
AnsweredTo(r, route) == r.pc = "done" /\ r.route = route /\ r.user # None

\* C5: a request without a session cookie, or whose token fails
\* verification, never reaches a database call: the step that takes it
\* answers 401 with no data and leaves both tables unchanged.
C5_NoSessionDenied ==
    [][/\ \A s \in Slots :
            (slots'[s].pc # "idle" /\ slots'[s].route # "login")
                => ~NoSession(slots'[s], now')
       /\ (Answered(last') /\ NoSession(last', now'))
            => /\ last'.status = 401
               /\ last'.payload = {}
               /\ UNCHANGED store]_vars

\* A forged administrator token has just been refused the deletion of an
\* employee that exists
C5_Witness ==
    /\ Answered(last) /\ last.status = 401
    /\ last.route = "employees" /\ last.method = "DELETE"
    /\ last.cookie = Some(Some(ForgedToken))
    /\ rowById(employees, ParseInt(last.body.id)) # None

\* The caller of request r does not have the role admin
NotAdmin(r) == r.user # None /\ r.user[1].role # "admin"

\* C6: a staff list, create, update or delete request of a caller whose role
\* is not admin is answered 403 (not 401) without reaching a database call,
\* and only a step of an administrator's staff request changes the staff table.
C6_StaffAdminOnly ==
    [][/\ (AnsweredTo(last', "employees") /\ NotAdmin(last'))
            => /\ last'.status = 403
               /\ last'.payload = {}
               /\ UNCHANGED employees
       /\ \A s \in Slots :
            (slots'[s].pc # "idle" /\ slots'[s].route = "employees")
                => ~NotAdmin(slots'[s])
       /\ employees' # employees
            => \E s \in Slots :
                /\ slots'[s] # slots[s]
                /\ slots[s].route = "employees"
                /\ slots[s].user # None
                /\ slots[s].user[1].role = "admin"]_vars

\* An employee with the role user has just been refused the deletion of an
\* employee that exists
C6_Witness ==
    /\ AnsweredTo(last, "employees") /\ last.method = "DELETE"
    /\ last.user[1].role = "user"
    /\ last.status = 403
    /\ rowById(employees, ParseInt(last.body.id)) # None

\* Slot s holds a customer update or delete of a caller who is not admin
AwaitsWrite(r) ==
    r.route = "customers" /\ r.pc \in {"update", "delete"} /\ NotAdmin(r)

\* C7: the update or delete of an existing customer by a caller who is not
\* admin is answered 403 if and only if the record's createdBy differs from
\* the caller's id, and such a request reaches its write only through that
\* check; an administrator's customer request is never answered 403.
C7_OwnerOnly ==
    [][/\ \A s \in Slots :
            /\ (slots[s].pc = "getCustomerById" /\ slots'[s] # slots[s]
                /\ rowById(customers, ParseInt(slots[s].body.id)) # None)
                => ((last'.pc = "done" /\ last'.status = 403)
                    <=> rowById(customers, ParseInt(slots[s].body.id))[1].createdBy
                            # slots[s].user[1].id)
            /\ (AwaitsWrite(slots'[s]) /\ slots'[s] # slots[s])
                => slots[s].pc = "getCustomerById"
       /\ (AnsweredTo(last', "customers") /\ ~NotAdmin(last'))
            => last'.status # 403]_vars

\* A caller who is not admin has just been refused the update of a customer
\* that exists and that another employee created, while a customer of their
\* own has been updated
C7_Witness ==
    /\ AnsweredTo(last, "customers") /\ last.method = "PUT"
    /\ NotAdmin(last) /\ last.status = 403
    /\ \E c \in customers :
        /\ c.id = ParseInt(last.body.id)
        /\ c.createdBy # last.user[1].id
    /\ \E c \in customers :
        c.createdBy = last.user[1].id /\ c.firstname = "Bob"

\* C8: a customer listing answers an administrator with every record and any
\* other caller with exactly the records whose createdBy is the caller's id;
\* getAllCustomers without a filter returns every record.
C8_ListingScoped ==
    [][/\ \A s \in Slots :
            (slots[s].pc = "getAllCustomers" /\ slots'[s] # slots[s])
                => /\ last'.pc = "done" /\ last'.status = 200
                   /\ last'.payload =
                        IF NotAdmin(slots[s])
                        THEN {c \in customers :
                                c.createdBy # NULL
                                /\ c.createdBy = slots[s].user[1].id}
                        ELSE customers
       /\ getAllCustomers(customers, None) = customers]_vars

\* A caller who is not admin has just listed the customers: their own are in
\* the answer and a customer of another employee is not
C8_Witness ==
    /\ AnsweredTo(last, "customers") /\ last.method = "GET"
    /\ NotAdmin(last) /\ last.status = 200
    /\ last.payload # {}
    /\ \E c \in customers : c.createdBy # last.user[1].id

\* C9: a customer creation of a caller with a valid session is never answered
\* 401 or 403, whatever the caller's role, and the record a successful one
\* inserts has the caller's id as its createdBy.
C9_CreatorOwns ==
    [][(AnsweredTo(last', "customers") /\ last'.method = "POST")
            => /\ last'.status \notin {401, 403}
               /\ last'.status = 201
                    => \E c \in customers' \ customers :
                        /\ last'.payload = {customerJson(c)}
                        /\ c.createdBy = last'.user[1].id]_vars

\* A caller who is not admin has just created a customer
C9_Witness ==
    /\ AnsweredTo(last, "customers") /\ last.method = "POST"
    /\ NotAdmin(last) /\ last.status = 201
    /\ \E c \in customers :
        last.payload = {customerJson(c)} /\ c.createdBy = last.user[1].id

\* C10: every live customer's createdBy is the value its creation gave it.
C10_OwnerImmutable ==
    \A c \in customers : c.createdBy = custLog[c.id].createdBy

\* A customer has been updated by a request that named another createdBy
C10_Witness ==
    /\ AnsweredTo(last, "customers") /\ last.method = "PUT"
    /\ last.status = 200
    /\ \E c \in customers :
        /\ last.payload = {customerJson(c)}
        /\ c.firstname = last.body.firstname
        /\ last.body.createdBy # None
        /\ last.body.createdBy[1] # c.createdBy

-----------------------------------------------------------------------------
(* Login and sessions: C11 to C13 *)

\* What the caller of a login sees: status, message, identity, token
LoginView(r) == <<r.status, r.message, r.payload, r.setCookie>>

\* The response of POST api/auth/login to `body` on the table `emps` at time t
loginOutcome(emps, body, t) ==
    LET r == loginPrefix(Request("login", "POST", None, body, None))
    IN  IF r.pc = "done" THEN r
        ELSE loginFinish(r, getEmployeeByCode(emps, body.employeeCode), t)

\* No employee has the code of the login `body`
UnknownCode(emps, body) ==
    ~Falsy(body.employeeCode) /\ ~Falsy(body.password)
    /\ getEmployeeByCode(emps, body.employeeCode) = None

\* An employee has the code of the login `body`, with another password
WrongSecret(emps, body) ==
    ~Falsy(body.employeeCode) /\ ~Falsy(body.password)
    /\ \E e \in emps :
        /\ e.employeeCode = body.employeeCode
        /\ ~bcryptCompare(body.password, e.password)

\* The step answered a login
AnsweredLogin(r) == r.pc = "done" /\ r.route = "login"

Matching(emps, body) ==
    {e \in emps : /\ e.employeeCode = body.employeeCode
                  /\ bcryptCompare(body.password, e.password)}

\* C12: a login is answered 200 if and only if an employee has its code and
\* a password hash its password matches; the token it sets and the identity
\* it returns then carry the id, code and role of that row as stored when the
\* login read it, and the identity has no password; any other login sets no
\* token and returns no identity.
C12_LoginIffMatch ==
    [][AnsweredLogin(last')
        => /\ last'.status = 200 <=> Matching(employees, last'.body) # {}
           /\ last'.status = 200
                => \E e \in Matching(employees, last'.body) :
                    /\ last'.setCookie # None
                    /\ last'.setCookie[1].id = e.id
                    /\ last'.setCookie[1].employeeCode = e.employeeCode
                    /\ last'.setCookie[1].role = e.role
                    /\ last'.setCookie[1].key = JWT_SECRET
                    /\ last'.setCookie[1].iat = now
                    /\ \E u \in last'.payload :
                        /\ last'.payload = {u}
                        /\ u.id = e.id /\ u.employeeCode = e.employeeCode
                        /\ u.role = e.role
                        /\ "password" \notin DOMAIN u
           /\ last'.status # 200
                => last'.setCookie = None /\ last'.payload = {}]_vars

\* An employee created through the API, whose role has been changed since,
\* has just logged in; a login with a wrong password was refused before
C12_Witness ==
    /\ AnsweredLogin(last) /\ last.status = 200
    /\ last.body.employeeCode = "EMP002"
    /\ last.setCookie[1].role = "admin"
    /\ last.setCookie[1].id = 2

\* The token carries a signature made with the server's key
SignedByServer(token) == token.form = "jwt" /\ token.key = JWT_SECRET

\* The tokens a caller may present: those login issued, and the three others
TokensSeen == sessions \cup {ForgedToken, MalformedToken, ExpiredToken}

\* C13: verifyToken returns the identity of a token if and only if the token
\* was signed with the server's key and less than 24 hours have passed since
\* it was issued, and null (no exception) for any other token; GET
\* api/auth/me answers 200 to exactly those tokens.
C13_VerifyIffSignedAndFresh ==
    [][/\ \A tok \in TokensSeen :
            /\ verifyToken(tok, now) # None
                <=> (SignedByServer(tok) /\ now < tok.iat + ExpiresIn)
            /\ verifyToken(tok, now) # None
                => /\ verifyToken(tok, now)[1].id = tok.id
                   /\ verifyToken(tok, now)[1].role = tok.role
                   /\ verifyToken(tok, now)[1].employeeCode = tok.employeeCode
       /\ (/\ last'.pc = "done" /\ last'.route = "me"
           /\ last'.cookie # None /\ last'.cookie[1] # None)
            => /\ last'.status \in {200, 401}
               /\ last'.status = 200
                    <=> /\ SignedByServer(last'.cookie[1][1])
                        /\ now' < last'.cookie[1][1].iat + ExpiresIn]_vars

\* A token login issued during the run has just been refused, 24 hours after
\* it was issued, while a later token is still accepted
C13_Witness ==
    /\ last.pc = "done" /\ last.route = "me" /\ last.status = 401
    /\ last.cookie # None /\ last.cookie[1] # None
    /\ last.cookie[1][1] \in sessions
    /\ now = last.cookie[1][1].iat + ExpiresIn
    /\ \E tok \in sessions : verifyToken(tok, now) # None

-----------------------------------------------------------------------------
(* Updates and deletions: C14 to C17 *)

\* The properties of a PUT body that the handler of `route` copies
UpdatableFields(route) ==
    IF route = "employees"
    THEN {"firstname", "lastname", "mobile", "dateOfBirth", "email", "role"}
    ELSE {"firstname", "lastname", "mobile", "dateOfBirth", "email"}

\* The updatable properties the request r supplies
Supplied(r) == {k \in UpdatableFields(r.route) : r.body[k] # Undefined}

\* r is an update that supplies no updatable property
EmptyUpdate(r) ==
    r.route \in {"employees", "customers"} /\ r.method = "PUT"
    /\ Supplied(r) = {}

\* The caller of r passes the role check of api/employees, or is the
\* administrator or the owner of the customer r names
MayWrite(r, custs) ==
    /\ r.user # None
    /\ IF r.route = "employees" THEN r.user[1].role = "admin"
       ELSE \/ r.user[1].role = "admin"
            \/ \E c \in custs : /\ c.id = ParseInt(r.body.id)
                                /\ c.createdBy = r.user[1].id

\* C14: an update that supplies no updatable field never reaches the store's
\* update and is never answered 200 or 404: a caller who passes the session,
\* role and ownership checks is answered 400, any other 400, 401 or 403, and
\* the store is unchanged.
C14_EmptyUpdateRejected ==
    [][/\ \A s \in Slots :
            slots'[s].pc \in {"update", "select"} => ~EmptyUpdate(slots'[s])
       /\ (last'.pc = "done" /\ EmptyUpdate(last'))
            => /\ last'.status \in {400, 401, 403}
               /\ MayWrite(last', customers) => last'.status = 400
               /\ last'.payload = {}
               /\ UNCHANGED store]_vars

\* An employee who is not admin has just sent an update without a field for
\* a customer of their own, and was told that there is nothing to update
C14_Witness ==
    /\ last.pc = "done" /\ EmptyUpdate(last) /\ last.route = "customers"
    /\ NotAdmin(last) /\ MayWrite(last, customers)
    /\ last.status = 400 /\ last.message = "No fields to update"

\* The row `old` after exactly the supplied properties of r are written
Patched(old, r) ==
    [k \in DOMAIN old |-> IF k \in Supplied(r) THEN r.body[k] ELSE old[k]]

\* C15: the UPDATE of a request changes, in the row with the request's id,
\* exactly the updatable properties the request supplies, to the supplied
\* values; id, code, password hash and createdBy, every property not
\* supplied, every other row and the other table stay as they were, and the
\* SELECT that follows changes nothing.
C15_UpdateFrame ==
    [][\A s \in Slots :
        /\ (slots[s].pc = "update" /\ slots'[s].pc = "select")
            => LET r == slots[s]
                   id == ParseInt(r.body.id)
               IN  /\ <<empSeq', custSeq'>> = <<empSeq, custSeq>>
                   /\ IF r.route = "employees"
                      THEN /\ customers' = customers
                           /\ \E old \in employees :
                                /\ old.id = id
                                /\ employees' = (employees \ {old})
                                                 \cup {Patched(old, r)}
                      ELSE /\ employees' = employees
                           /\ \E old \in customers :
                                /\ old.id = id
                                /\ customers' = (customers \ {old})
                                                 \cup {Patched(old, r)}
        /\ (slots[s].pc = "select" /\ slots'[s] # slots[s] /\ last'.pc = "done")
            => UNCHANGED store]_vars

\* An update that named the email, a password and a code has just succeeded:
\* the employee has the new email, the code and the password hash of its
\* creation and the other properties of its creation
C15_Witness ==
    /\ last.pc = "done" /\ last.route = "employees" /\ last.method = "PUT"
    /\ last.status = 200
    /\ last.body.password # Undefined /\ last.body.employeeCode # Undefined
    /\ \E e \in employees :
        /\ e.id = ParseInt(last.body.id)
        /\ e.email = last.body.email
        /\ e.employeeCode = empLog[e.id].code
        /\ e.password = hashPassword("secret1")
        /\ e.firstname = "Ann"

\* The step answered a deletion, by a caller who passes the session check and
\* the role check of its route, of an id no row of the collection has
DeletedAbsent(r, emps, custs) ==
    /\ r.pc = "done" /\ r.method = "DELETE" /\ ~Falsy(r.body.id)
    /\ r.user # None
    /\ IF r.route = "employees"
       THEN r.user[1].role = "admin" /\ rowById(emps, ParseInt(r.body.id)) = None
       ELSE r.route = "customers" /\ rowById(custs, ParseInt(r.body.id)) = None

\* C16 as stated: the deletion of an id that no row has is answered 404 to
\* every caller permitted to use the operation, a caller who is not admin
\* deleting a customer included, and the store is unchanged.
C16_DeleteAbsentNotFound ==
    [][DeletedAbsent(last', employees, customers)
        => last'.status = 404 /\ UNCHANGED store]_vars

\* C16, amended: the deletion of an id that no row has leaves the store
\* unchanged and is answered 404 to an administrator; a caller who is not
\* admin deleting a customer id that no row has is answered 403 by the
\* ownership check, which runs before deleteCustomer.
C16_DeleteAbsentNotFoundOrDenied ==
    [][DeletedAbsent(last', employees, customers)
        => /\ UNCHANGED store
           /\ last'.status = IF last'.route = "customers" /\ NotAdmin(last')
                             THEN 403 ELSE 404]_vars

\* An employee who is not admin has just been refused the deletion of a
\* customer id that no row has, with customers of their own in the table
C16_Witness ==
    /\ DeletedAbsent(last, employees, customers)
    /\ last.route = "customers" /\ NotAdmin(last)
    /\ last.status = 403
    /\ \E c \in customers : c.createdBy = last.user[1].id

\* The row with the id of request r in the table of its route
Target(r, emps, custs) ==
    rowById(IF r.route = "employees" THEN emps ELSE custs, ParseInt(r.body.id))

\* The entity object of the response to an update of `route`
entityJson(route, row) ==
    IF route = "employees" THEN employeeJson(row) ELSE customerJson(row)

\* C17: the request whose UPDATE runs is answered 404 by that step if and
\* only if no row has its id, and a request whose UPDATE modified a row is
\* answered 200 with the row as its SELECT finds it, whatever other requests
\* do to the row between its UPDATE and its SELECT.
C17_UpdateAnswersRow ==
    [][\A s \in Slots :
        /\ (slots[s].pc = "update" /\ slots'[s] # slots[s])
            => ((last'.pc = "done" /\ last'.status = 404)
                    <=> Target(slots[s], employees, customers) = None)
        /\ (slots[s].pc = "select" /\ slots'[s] # slots[s])
            => /\ last'.pc = "done" /\ last'.status = 200
               /\ \E row \in employees' \cup customers' :
                    /\ Some(row) = Target(slots[s], employees', customers')
                    /\ last'.payload = {entityJson(slots[s].route, row)}]_vars

-----------------------------------------------------------------------------
(* Initialization and inputs: C18 to C20 *)

\* The rows with the reserved code
Bootstrap(emps) == {e \in emps : e.employeeCode = "ADMIN001"}

\* C18: after the first initialization exactly one employee has the code
\* ADMIN001, and its role is admin; an initialization that runs while a row
\* has that code leaves the table and its sequence as they are, and no state
\* has two rows with the code.
C18_InitIdempotent ==
    /\ \E e \in employees : Bootstrap(employees) = {e} /\ e.role = "admin"
    /\ [][/\ (Restart /\ Bootstrap(employees) # {})
                => /\ employees' = employees
                   /\ empSeq' = empSeq
             /\ Cardinality(Bootstrap(employees')) <= 1]_vars

\* The server has been started again twice with the administrator's row in
\* the table, which an update had changed: the row is still the only one
\* with the code and still carries the change
C18_Witness ==
    /\ boots = MaxBoots
    /\ Cardinality(employees) > 1
    /\ \E e \in employees :
        /\ Bootstrap(employees) = {e}
        /\ e.id = 1
        /\ e.email = "b@x.com"

\* C19 as stated: the role of every employee is admin or user.
C19_RoleClosed == \A e \in employees : e.role \in {"admin", "user"}

\* The shortest password POST api/employees accepts
MinPassword == 6

\* The properties a creation on `route` requires
RequiredFields(route) ==
    IF route = "employees"
    THEN {"firstname", "lastname", "mobile", "dateOfBirth", "email", "password"}
    ELSE {"firstname", "lastname", "mobile", "dateOfBirth", "email"}

\* r is a creation that misses a required property or, for an employee, has
\* a password of fewer than MinPassword characters
InvalidCreation(r) ==
    /\ r.route \in {"employees", "customers"} /\ r.method = "POST"
    /\ \/ \E k \in RequiredFields(r.route) : r.body[k] \in {Undefined, ""}
       \/ r.route = "employees" /\ Len(r.body.password) < MinPassword

\* The caller of the creation r passes the session check and, for an
\* employee, the role check
MayCreate(r) ==
    r.user # None /\ (r.route = "employees" => r.user[1].role = "admin")

\* C20: a creation that misses a required field, or an employee creation
\* with a password shorter than 6 characters, never reaches the code
\* generator or the INSERT: a caller who passes the session and role checks
\* is answered 400, any other 401 or 403, no entity is returned and the
\* tables and their sequences are unchanged.
C20_InvalidCreationRejected ==
    [][/\ \A s \in Slots :
            slots'[s].pc \in {"generateCode", "insert"}
                => ~InvalidCreation(slots'[s])
       /\ (last'.pc = "done" /\ InvalidCreation(last'))
            => /\ last'.status \in {400, 401, 403}
               /\ MayCreate(last') => last'.status = 400
               /\ last'.payload = {} /\ last'.code = ""
               /\ UNCHANGED store]_vars

\* The administrator has just been refused the creation of an employee whose
\* password has five characters and whose other fields are all present
C20_Witness ==
    /\ last.pc = "done" /\ last.route = "employees" /\ last.method = "POST"
    /\ last.status = 400
    /\ last.message = "Password must be at least 6 characters"
    /\ Len(last.body.password) = MinPassword - 1
    /\ \A k \in RequiredFields("employees") : ~Falsy(last.body[k])

-----------------------------------------------------------------------------
(* Order of the checks, responses and codes: C21 to C23 *)

\* r is a write that misses a required property: an invalid creation, an
\* update or a deletion without an id, or an update without a field
MissingRequired(r) ==
    \/ InvalidCreation(r)
    \/ EmptyUpdate(r)
    \/ /\ r.route \in {"employees", "customers"}
       /\ r.method \in {"PUT", "DELETE"}
       /\ Falsy(r.body.id)

\* The caller of the write r may perform it
Permitted(r, custs) ==
    IF r.method = "POST" THEN MayCreate(r) ELSE MayWrite(r, custs)

\* The step answered a write that misses a required property, to a caller
\* who may not perform it
InvalidAndForbidden(r, custs) ==
    /\ r.pc = "done" /\ r.route \in {"employees", "customers"}
    /\ r.method \in {"POST", "PUT", "DELETE"}
    /\ MissingRequired(r) /\ ~Permitted(r, custs)

\* C21 as stated: a write that misses a required field and whose caller is
\* not permitted to perform it ends with a validation error.
C21_ValidationBeforeAuthorization ==
    [][InvalidAndForbidden(last', customers) => last'.status = 400]_vars

\* C21, amended: the session check and the role check of the staff
\* operations come before the validation of the body: a write that misses a
\* required field and whose caller is not permitted to perform it is
\* answered 401 without a valid session and 403 with one, and only a
\* customer update or deletion without an id is answered 400, because the
\* id is looked at before the owner; the store is unchanged.
C21_AuthorizationBeforeValidation ==
    [][InvalidAndForbidden(last', customers)
        => /\ last'.status =
                IF last'.user = None THEN 401
                ELSE IF last'.route = "customers" /\ Falsy(last'.body.id)
                THEN 400
                ELSE 403
           /\ UNCHANGED store]_vars

\* An employee who is not admin has just been refused, for the role and not
\* for the body, the creation of an employee with a password too short
C21_Witness ==
    /\ InvalidAndForbidden(last, customers)
    /\ last.route = "employees" /\ last.method = "POST"
    /\ NotAdmin(last) /\ last.status = 403
    /\ Len(last.body.password) < MinPassword

\* The passwords the requests of the model carry
Plaintexts == {"admin123", "secret1", "12345", "hacked1"}

\* Those passwords and their hashes, stored now or earlier
SecretStrings == Plaintexts \cup {hashPassword(p) : p \in Plaintexts}

\* The string-valued properties of an object of a response
StringFields(u) == DOMAIN u \ {"id", "createdBy", "iat"}

\* C22: no response carries a password or a password hash: no object of a
\* response has a password property, and no message, no property of an
\* object and no claim of the token set by login is a password or a hash.
C22_NoSecretInResponse ==
    last.pc = "done" =>
        /\ last.message \notin SecretStrings
        /\ \A u \in last.payload :
            /\ "password" \notin DOMAIN u
            /\ \A k \in StringFields(u) : u[k] \notin SecretStrings
        /\ last.setCookie # None =>
            /\ "password" \notin DOMAIN last.setCookie[1]
            /\ \A k \in {"employeeCode", "email", "role"} :
                last.setCookie[1][k] \notin SecretStrings

\* The administrator has just listed the employees, the bootstrap row and
\* one created through the API, both of which have a stored hash
C22_Witness ==
    /\ AnsweredTo(last, "employees") /\ last.method = "GET"
    /\ last.status = 200
    /\ Cardinality(last.payload) > 1
    /\ \A e \in employees : e.password \in SecretStrings

\* The code with prefix `prefix` and number k, zero-padded to three digits
CodeOf(prefix, k) == prefix \o padStart(ToString(k), 3, "0")

\* C23 as stated: with no deletion, the k-th creation of a collection
\* returns the prefix followed by k: EMP001 and CUST001 first.  Row 1 of
\* employees is the bootstrap row, so the k-th creation is row k + 1.
C23_FirstCodes ==
    /\ empDels = 0 =>
        \A i \in DOMAIN empLog :
            empLog[i].code # "ADMIN001" => empLog[i].code = CodeOf("EMP", i - 1)
    /\ custDels = 0 =>
        \A i \in DOMAIN custLog : custLog[i].code = CodeOf("CUST", i)

-----------------------------------------------------------------------------
(* Owners, failures and stale tokens: C24 to C27 *)

\* C24 as stated: the createdBy of every customer is NULL or the id of an
\* employee in the table.
C24_OwnerExists ==
    \A c \in customers :
        c.createdBy = NULL \/ \E e \in employees : e.id = c.createdBy

\* The request r as it was received
Received(r) == <<r.route, r.method, r.cookie, r.body>>

AcceptedToken(r, t) ==
    IF r.cookie = None THEN None
    ELSE IF r.cookie[1] = None THEN None
    ELSE IF verifyToken(r.cookie[1][1], t) = None THEN None
    ELSE r.cookie[1]

\* C26: a request whose token verifyToken accepts is never answered 401 and
\* is served with the id and role of the token, whatever the table holds for
\* that id by then: GET api/auth/me returns the claims of the token, and a
\* staff operation is answered 403 exactly when the role of the token is not
\* admin.
C26_TokenClaimsDecide ==
    [][(Answered(last') /\ AcceptedToken(last', now') # None)
        => LET token == AcceptedToken(last', now')[1]
           IN  /\ last'.status # 401
               /\ last'.user # None
               /\ last'.user[1].id = token.id
               /\ last'.user[1].role = token.role
               /\ last'.route = "me"
                    => /\ last'.status = 200
                       /\ last'.payload =
                            {[id |-> token.id, role |-> token.role,
                              employeeCode |-> token.employeeCode,
                              email |-> token.email]}
               /\ last'.route = "employees"
                    => (last'.status = 403 <=> token.role # "admin")]_vars

\* An employee whose role is admin by now has just been refused a staff
\* operation as the user their token, issued before the change, says
C26_Witness ==
    /\ AnsweredTo(last, "employees") /\ last.status = 403
    /\ AcceptedToken(last, now) # None
    /\ AcceptedToken(last, now)[1].role = "user"
    /\ \E e \in employees :
        e.id = AcceptedToken(last, now)[1].id /\ e.role = "admin"

\* C27 as stated: some employee has the role admin.
C27_AdminRemains == \E e \in employees : e.role = "admin"

-----------------------------------------------------------------------------
(* Concurrent writes and ids: C28 to C30 *)

\* C28: whatever runs between the ownership check of a caller who is not
\* admin and the UPDATE or DELETE that follows it, every customer row that
\* statement modifies or removes has the id the request names and the
\* caller's id as its createdBy.
C28_WriteHitsOwnRecord ==
    [][\A s \in Slots :
        (AwaitsWrite(slots[s]) /\ slots'[s] # slots[s])
            => \A c \in customers \ customers' :
                /\ c.id = ParseInt(slots[s].body.id)
                /\ c.createdBy = slots[s].user[1].id]_vars

\* An employee who is not admin has just been told that the customer of
\* their update does not exist: it passed their ownership check and was
\* deleted before their UPDATE ran
C28_Witness ==
    /\ AnsweredTo(last, "customers") /\ last.method = "PUT"
    /\ NotAdmin(last) /\ last.status = 404
    /\ custLog # <<>> /\ custLog[1].createdBy = last.user[1].id
    /\ custDels > 0

\* Slots s and t hold updates of the same record, the UPDATE of t has run
\* and its SELECT has not
Overlapping(s, t) ==
    /\ s # t
    /\ slots[s].route = slots[t].route
    /\ slots[s].body.id = slots[t].body.id
    /\ slots[t].pc = "select"

\* C29: an UPDATE changes in its row the properties its request supplies and
\* nothing else; and when it runs while another update of the same record
\* waits for its SELECT with its values still in the row, the row afterwards
\* holds, property by property, the value this request supplies, else the
\* value the other request supplies, else what it held before. Two
\* overlapping updates of disjoint properties therefore both take effect,
\* and a property both supply ends with the value of one of them.
C29_ConcurrentUpdatesMerge ==
    [][\A s \in Slots :
        (slots[s].pc = "update" /\ slots'[s].pc = "select")
            => LET r == slots[s]
                   old == Target(r, employees, customers)[1]
                   new == Target(r, employees', customers')[1]
               IN  /\ Target(r, employees, customers) # None
                   /\ Target(r, employees', customers') # None
                   /\ new = Patched(old, r)
                   /\ \A t \in Slots :
                        (/\ Overlapping(s, t)
                         /\ \A k \in Supplied(slots[t]) :
                                old[k] = slots[t].body[k])
                            => \A k \in DOMAIN new :
                                /\ k \in Supplied(r) => new[k] = r.body[k]
                                /\ k \in Supplied(slots[t]) \ Supplied(r)
                                        => new[k] = slots[t].body[k]
                                /\ k \in Supplied(r) \cap Supplied(slots[t])
                                        => new[k] \in {r.body[k],
                                                       slots[t].body[k]}
                                /\ k \notin Supplied(r) \cup Supplied(slots[t])
                                        => new[k] = old[k]]_vars

\* Two updates of one record that supply different properties have both run
\* their UPDATE, neither has been answered, and the row holds both changes
C29_Witness ==
    \E s, t \in Slots :
        /\ Overlapping(s, t) /\ slots[s].pc = "select"
        /\ Supplied(slots[s]) # {} /\ Supplied(slots[t]) # {}
        /\ Supplied(slots[s]) \cap Supplied(slots[t]) = {}
        /\ LET row == Target(slots[s], employees, customers)
           IN  /\ row # None
               /\ \A k \in Supplied(slots[s]) : row[1][k] = slots[s].body[k]
               /\ \A k \in Supplied(slots[t]) : row[1][k] = slots[t].body[k]

\* The rows of rows' whose id no row of `rows` has
Inserted(rows, rowsAfter) ==
    {n \in rowsAfter : \A o \in rows : o.id # n.id}

\* C30: no row has an id above the largest id its table has ever held, which
\* never decreases, and every row a step inserts has an id above it: an id is
\* not given twice, deletions or not. An employee row therefore never starts
\* with an id that is the createdBy of a customer, and is not taken for the
\* owner of the customers of a deleted employee.
C30_IdsNeverReused ==
    [][/\ \A e \in employees : e.id <= empSeq
       /\ \A c \in customers : c.id <= custSeq /\ c.createdBy <= empSeq
       /\ empSeq' >= empSeq /\ custSeq' >= custSeq
       /\ \A e \in Inserted(employees, employees') :
            /\ e.id > empSeq
            /\ \A c \in customers \cup customers' : c.createdBy # e.id
       /\ \A c \in Inserted(customers, customers') : c.id > custSeq]_vars

\* An employee created a customer and was deleted, and the creation of an
\* employee has just been answered: the new row has another id than the
\* customer's createdBy
C30_Witness ==
    /\ AnsweredTo(last, "employees") /\ last.method = "POST"
    /\ last.status = 201
    /\ empDels > 0
    /\ \E c \in customers :
        /\ \A e \in employees : e.id # c.createdBy
        /\ \E e \in employees : e.id > c.createdBy

====
